---- MODULE Spec2Model ----
(***************************************************************************)
(* NewFileRepo (munkilib/munkirepo/NewFileRepo.py): a repository rooted at *)
(* a local directory, or at a file share that connect() mounts first.      *)
(*                                                                         *)
(* Python strings (URLs, paths) are sequences of one-character strings, so *)
(* that slicing, startswith, urlparse and os.path.join are computed.       *)
(* Tool names and event names are atoms (TLA+ strings).                    *)
(***************************************************************************)
EXTENDS Integers, Sequences, FiniteSets, TLC

VARIABLES
    baseurl,            \* self.baseurl
    url_scheme,         \* self.url_scheme
    root,               \* self.root
    we_mounted_repo,    \* self.we_mounted_repo
    NETFSMOUNTURLSYNC_AVAILABLE,  \* module global set once at import
    dirs,               \* the directories that exist on the host
    files,              \* the regular files on the host: path -> content
    calls,              \* number of calls made so far (bounded by MaxCalls)
    mounts,             \* number of mounts this instance performed with success
    pre,                \* root, we_mounted_repo and dirs before the last call
    last                \* the last call: its name, inputs, outcome and events

vars == <<baseurl, url_scheme, root, we_mounted_repo,
          NETFSMOUNTURLSYNC_AVAILABLE, dirs, files, calls, mounts, pre, last>>

\* ------------------------------------------------------------ bounds
\* connect() calls made on the instance
MaxCalls == 3
\* direct calls of the module-level mount functions
MaxMountCalls == 2
\* calls of the item operations (get, put, delete, itemlist, ...)
MaxItemCalls == 3

\* ------------------------------------------------------------ strings
startswith(s, p) == Len(s) >= Len(p) /\ SubSeq(s, 1, Len(p)) = p

\* Python s[n:]
SliceFrom(s, n) == SubSeq(s, n + 1, Len(s))

\* Python s[:n]
SliceTo(s, n) == SubSeq(s, 1, IF n < Len(s) THEN n ELSE Len(s))

\* Python s.find(c) over a set of characters, from 0-based position start:
\* the 0-based index of the first character of s in cs, or -1
find(s, cs, start) ==
    LET hits == {i \in (start + 1)..Len(s) : s[i] \in cs}
    IN  IF hits = {} THEN -1
        ELSE (CHOOSE i \in hits : \A j \in hits : i <= j) - 1

\* Python s.rfind(c): the 0-based index of the last c in s, or -1
rfind(s, c) ==
    LET hits == {i \in 1..Len(s) : s[i] = c}
    IN  IF hits = {} THEN -1
        ELSE (CHOOSE i \in hits : \A j \in hits : i >= j) - 1

\* Python s.rstrip(c)
RECURSIVE rstrip(_, _)
rstrip(s, c) ==
    IF s # <<>> /\ s[Len(s)] = c THEN rstrip(SubSeq(s, 1, Len(s) - 1), c) ELSE s

Count(s, x) == Cardinality({i \in 1..Len(s) : s[i] = x})

FILE    == <<"f", "i", "l", "e">>
VOLUMES == <<"/", "V", "o", "l", "u", "m", "e", "s">>
AFP_    == <<"a", "f", "p", ":">>
SMB_    == <<"s", "m", "b", ":">>
NFS_    == <<"n", "f", "s", ":", "/", "/">>

\* ------------------------------------------------------------ urlparse
scheme_chars ==
    {"a", "b", "c", "d", "e", "f", "g", "h", "i", "j", "k", "l", "m",
     "n", "o", "p", "q", "r", "s", "t", "u", "v", "w", "x", "y", "z",
     "0", "1", "2", "3", "4", "5", "6", "7", "8", "9", "+", "-", "."}

Digits == {"0", "1", "2", "3", "4", "5", "6", "7", "8", "9"}

\* urlparse.urlparse(url) of the Python 2.7 standard library, for lower-case
\* URLs without parameters: scheme up to the first ':', network location
\* after '//' up to the next '/', '?' or '#', then the path up to '#' or '?'.
urlparse(url) ==
    LET i      == find(url, {":"}, 0)
        rest   == SliceFrom(url, i + 1)
        split  == /\ i > 0
                  /\ \A k \in 1..i : url[k] \in scheme_chars
                  /\ (rest = <<>> \/ \E k \in 1..Len(rest) : rest[k] \notin Digits)
        scheme == IF split THEN SliceTo(url, i) ELSE <<>>
        u1     == IF split THEN rest ELSE url
        hasnet == SliceTo(u1, 2) = <<"/", "/">>
        d0     == find(u1, {"/", "?", "#"}, 2)
        delim  == IF d0 < 0 THEN Len(u1) ELSE d0
        netloc == IF hasnet THEN SubSeq(u1, 3, delim) ELSE <<>>
        u2     == IF hasnet THEN SliceFrom(u1, delim) ELSE u1
        f      == find(u2, {"#"}, 0)
        u3     == IF f < 0 THEN u2 ELSE SliceTo(u2, f)
        q      == find(u3, {"?"}, 0)
        path   == IF q < 0 THEN u3 ELSE SliceTo(u3, q)
    IN  [scheme |-> scheme, netloc |-> netloc, path |-> path]

\* ------------------------------------------------------------ os.path
\* posixpath.join(a, b)
join(a, b) ==
    IF startswith(b, <<"/">>) THEN b
    ELSE IF a = <<>> \/ a[Len(a)] = "/" THEN a \o b
    ELSE a \o <<"/">> \o b

\* posixpath.dirname(p)
dirname(p) ==
    LET i    == rfind(p, "/") + 1
        head == SliceTo(p, i)
    IN  IF head # <<>> /\ (\E k \in 1..Len(head) : head[k] # "/")
        THEN rstrip(head, "/") ELSE head

\* os.path.exists(p), for the directories of the model
exists(p, ds) == p \in ds

\* ------------------------------------------------------------ names
\* The names the module binds at import (lines 1-7 and the definitions of
\* lines 41-108) and the Python 2 builtins the code uses. The names of lines
\* 13-36 (CFURLCreateWithString, NetFS) are bound when the NetFS bindings
\* load, and the mount functions are called only then. Any other name
\* raises NameError where it is evaluated.
ModuleNames ==
    {"os", "shutil", "subprocess", "urlparse", "Repo",
     "ShareMountException", "ShareAuthenticationNeededException",
     "mount_share", "mount_share_with_credentials", "mount_share_url",
     "NewFileRepo", "NETFSMOUNTURLSYNC_AVAILABLE",
     "raw_input", "str", "len", "open"}

Bound(name) == name \in ModuleNames

\* ------------------------------------------------------------ outcomes
\* A call returns a value (exc = <<>>) or raises (exc names the exception).
Return(v) == [exc |-> <<>>, val |-> v]
Raise(e)  == [exc |-> e, val |-> <<>>]
NameError(name) == <<"NameError", name>>

ShareMountException == <<"ShareMountException">>
ShareAuthenticationNeededException == <<"ShareAuthenticationNeededException">>

\* except ShareMountException: the class and its subclass (lines 41-48)
IsShareMountException(e) ==
    e \in {ShareMountException, ShareAuthenticationNeededException}

\* ------------------------------------------------------------ native mount
kNetAuthErrorInternal == -6600
EINVAL  == 22
ENOTSUP == 45
EAUTH   == 80

\* line 63: the results that mean authentication is needed
AuthenticationCodes == {kNetAuthErrorInternal, EINVAL, ENOTSUP, EAUTH}

\* mount_share(share_url), given what NetFSMountURLSync answered
mount_share(share_url, result, mountpoints) ==
    IF result # 0
    THEN IF ~Bound("errno")
         THEN Raise(NameError("errno"))
         ELSE IF result \in AuthenticationCodes
              THEN Raise(ShareAuthenticationNeededException)
              ELSE Raise(ShareMountException)
    ELSE Return(mountpoints[1])

\* Faulty variant: the credentials path classifies results as mount_share does
mount_share_with_credentials_auth(share_url, username, password, result, mountpoints) ==
    IF result # 0
    THEN IF result \in AuthenticationCodes
         THEN Raise(ShareAuthenticationNeededException)
         ELSE Raise(ShareMountException)
    ELSE Return(mountpoints[1])

\* mount_share_with_credentials(share_url, username, password), given what
\* NetFSMountURLSync answered
mount_share_with_credentials(share_url, username, password, result, mountpoints) ==
    IF result # 0
    THEN Raise(ShareMountException)
    ELSE Return(mountpoints[1])

\* mount_share_url(share_url): n1 and n2 are the answers of the first and
\* of the second NetFSMountURLSync call; log and results list the events
\* and the native results of the calls actually made
mount_share_url(share_url, n1, n2, username, password) ==
    LET first == mount_share(share_url, n1.result, n1.mountpoints)
    IN  IF first.exc = ShareAuthenticationNeededException
        THEN IF ~Bound("getpass")
             THEN [exc |-> NameError("getpass"), val |-> <<>>,
                   log |-> <<"NetFSMountURLSync", "raw_input">>,
                   results |-> <<n1.result>>]
             ELSE LET second == mount_share_with_credentials(
                                    share_url, username, password,
                                    n2.result, n2.mountpoints)
                  IN  [exc |-> second.exc, val |-> second.val,
                       log |-> <<"NetFSMountURLSync", "raw_input",
                                 "getpass.getpass",
                                 "NetFSMountURLSync+credentials">>,
                       results |-> <<n1.result, n2.result>>]
        ELSE [exc |-> first.exc, val |-> first.val,
              log |-> <<"NetFSMountURLSync">>,
              results |-> <<n1.result>>]

\* ------------------------------------------------------------ NewFileRepo
\* NewFileRepo.__init__(baseurl): the fields of the new instance
init(url) ==
    LET url_parts == urlparse(url)
    IN  [baseurl         |-> url,
         url_scheme      |-> url_parts.scheme,
         root            |-> IF url_parts.scheme = FILE
                             THEN url_parts.path
                             ELSE join(VOLUMES, url_parts.path),
         we_mounted_repo |-> FALSE]

\* What a connect() call leaves: the fields it may assign, the directories,
\* its outcome and the calls it made to the host
Outcome(r, w, ds, exc, log, cmd, results, retcodes) ==
    [root |-> r, we_mounted_repo |-> w, dirs |-> ds, exc |-> exc,
     log |-> log, cmd |-> cmd, results |-> results, retcodes |-> retcodes]

\* raise SomeSortOfError (line 153)
SomeSortOfError ==
    IF Bound("SomeSortOfError") THEN <<"SomeSortOfError">>
    ELSE NameError("SomeSortOfError")

\* Faulty variant: connect() ends without the existence check
check_root_skipped(r, ds) == <<>>

\* lines 151-153: the existence check that ends connect()
check_root(r, ds) ==
    IF ~exists(r, ds) THEN SomeSortOfError ELSE <<>>

\* Faulty variant: smb: URLs lose the whole "smb://" prefix
mount_cmd_bare(url, r) ==
    IF startswith(url, AFP_) THEN <<"/sbin/mount_afp", "-i", url, r>>
    ELSE IF startswith(url, SMB_) THEN <<"/sbin/mount_smbfs", SliceFrom(url, 6), r>>
    ELSE IF startswith(url, NFS_) THEN <<"/sbin/mount_nfs", SliceFrom(url, 6), r>>
    ELSE <<>>

\* lines 137-145: the external mount command, <<>> when the URL is none
\* of afp:, smb:, nfs://
mount_cmd(url, r) ==
    IF startswith(url, AFP_) THEN <<"/sbin/mount_afp", "-i", url, r>>
    ELSE IF startswith(url, SMB_) THEN <<"/sbin/mount_smbfs", SliceFrom(url, 4), r>>
    ELSE IF startswith(url, NFS_) THEN <<"/sbin/mount_nfs", SliceFrom(url, 6), r>>
    ELSE <<>>

\* Faulty variant: we_mounted_repo is set before the mount is tried
connect_native_owned(self, ds, n1, n2, username, password) ==
    LET m == mount_share_url(self.baseurl, n1, n2, username, password)
    IN  IF m.exc = <<>>
        THEN LET ds1 == ds \cup {m.val}
             IN  Outcome(m.val, TRUE, ds1, check_root(m.val, ds1),
                         m.log, <<>>, m.results, <<>>)
        ELSE IF IsShareMountException(m.exc)
        THEN Outcome(self.root, TRUE, ds,
                     IF Bound("sys") THEN <<>> ELSE NameError("sys"),
                     m.log \o (IF Bound("sys") THEN <<"print">> ELSE <<>>),
                     <<>>, m.results, <<>>)
        ELSE Outcome(self.root, TRUE, ds, m.exc,
                     m.log, <<>>, m.results, <<>>)

\* Faulty variant: root is cleared when the mount fails
connect_native_root_reset(self, ds, n1, n2, username, password) ==
    LET m == mount_share_url(self.baseurl, n1, n2, username, password)
    IN  IF m.exc = <<>>
        THEN LET ds1 == ds \cup {m.val}
             IN  Outcome(m.val, TRUE, ds1, check_root(m.val, ds1),
                         m.log, <<>>, m.results, <<>>)
        ELSE IF IsShareMountException(m.exc)
        THEN Outcome(m.val, self.we_mounted_repo, ds,
                     IF Bound("sys") THEN <<>> ELSE NameError("sys"),
                     m.log \o (IF Bound("sys") THEN <<"print">> ELSE <<>>),
                     <<>>, m.results, <<>>)
        ELSE Outcome(m.val, self.we_mounted_repo, ds, m.exc,
                     m.log, <<>>, m.results, <<>>)

\* lines 128-134: the native mount
connect_native(self, ds, n1, n2, username, password) ==
    LET m == mount_share_url(self.baseurl, n1, n2, username, password)
    IN  IF m.exc = <<>>
        THEN \* the share is mounted: its mount point exists from now on
             LET ds1 == ds \cup {m.val}
             IN  Outcome(m.val, TRUE, ds1, check_root(m.val, ds1),
                         m.log, <<>>, m.results, <<>>)
        ELSE IF IsShareMountException(m.exc)
        THEN \* print sys.stderr, err; return
             Outcome(self.root, self.we_mounted_repo, ds,
                     IF Bound("sys") THEN <<>> ELSE NameError("sys"),
                     m.log \o (IF Bound("sys") THEN <<"print">> ELSE <<>>),
                     <<>>, m.results, <<>>)
        ELSE Outcome(self.root, self.we_mounted_repo, ds, m.exc,
                     m.log, <<>>, m.results, <<>>)

\* Faulty variant: the mount directory stays when the command fails
connect_fallback_no_rmdir(self, ds, run) ==
    IF exists(self.root, ds) \/ ~exists(dirname(self.root), ds)
    THEN Outcome(self.root, self.we_mounted_repo, ds, <<"OSError">>,
                 <<"os.mkdir">>, <<>>, <<>>, <<>>)
    ELSE LET ds1 == ds \cup {self.root}
             cmd == mount_cmd(self.baseurl, self.root)
         IN  IF cmd = <<>>
             THEN Outcome(self.root, self.we_mounted_repo, ds1,
                          IF Bound("sys") THEN <<>> ELSE NameError("sys"),
                          <<"os.mkdir">> \o
                              (IF Bound("sys") THEN <<"print">> ELSE <<>>),
                          <<>>, <<>>, <<>>)
             ELSE IF run.exc # <<>>
             THEN Outcome(self.root, self.we_mounted_repo, ds1, run.exc,
                          <<"os.mkdir", "subprocess.call">>,
                          cmd, <<>>, <<>>)
             ELSE IF run.retcode # 0
             THEN Outcome(self.root, self.we_mounted_repo, ds1,
                          check_root(self.root, ds1),
                          <<"os.mkdir", "subprocess.call">>,
                          cmd, <<>>, <<run.retcode>>)
             ELSE Outcome(self.root, TRUE, ds1, check_root(self.root, ds1),
                          <<"os.mkdir", "subprocess.call">>,
                          cmd, <<>>, <<run.retcode>>)

\* lines 136-150: the external mount command; run is what subprocess.call
\* did: it returned the command's exit code, or raised
connect_fallback(self, ds, run) ==
    IF exists(self.root, ds) \/ ~exists(dirname(self.root), ds)
    THEN \* os.mkdir fails
         Outcome(self.root, self.we_mounted_repo, ds, <<"OSError">>,
                 <<"os.mkdir">>, <<>>, <<>>, <<>>)
    ELSE LET ds1 == ds \cup {self.root}
             cmd == mount_cmd(self.baseurl, self.root)
         IN  IF cmd = <<>>
             THEN \* print >> sys.stderr, 'Unsupported filesystem URL!'; return
                  Outcome(self.root, self.we_mounted_repo, ds1,
                          IF Bound("sys") THEN <<>> ELSE NameError("sys"),
                          <<"os.mkdir">> \o
                              (IF Bound("sys") THEN <<"print">> ELSE <<>>),
                          <<>>, <<>>, <<>>)
             ELSE IF run.exc # <<>>
             THEN \* subprocess.call raises: the command cannot be started
                  Outcome(self.root, self.we_mounted_repo, ds1, run.exc,
                          <<"os.mkdir", "subprocess.call">>,
                          cmd, <<>>, <<>>)
             ELSE IF run.retcode # 0
             THEN LET ds2 == ds1 \ {self.root}
                  IN  Outcome(self.root, self.we_mounted_repo, ds2,
                              check_root(self.root, ds2),
                              <<"os.mkdir", "subprocess.call", "os.rmdir">>,
                              cmd, <<>>, <<run.retcode>>)
             ELSE Outcome(self.root, TRUE, ds1, check_root(self.root, ds1),
                          <<"os.mkdir", "subprocess.call">>,
                          cmd, <<>>, <<run.retcode>>)

\* Faulty variant: the last check looks for the URL, not for root
connect_checks_url(self, ds, netfs, n1, n2, username, password, run) ==
    IF ~exists(self.root, ds) /\ self.url_scheme # FILE
    THEN IF netfs
         THEN connect_native(self, ds, n1, n2, username, password)
         ELSE connect_fallback(self, ds, run)
    ELSE Outcome(self.root, self.we_mounted_repo, ds,
                 check_root(self.baseurl, ds), <<>>, <<>>, <<>>, <<>>)

\* Faulty variant: a mount is attempted also when root exists
connect_always_mounts(self, ds, netfs, n1, n2, username, password, run) ==
    IF self.url_scheme # FILE
    THEN IF netfs
         THEN connect_native(self, ds, n1, n2, username, password)
         ELSE connect_fallback(self, ds, run)
    ELSE Outcome(self.root, self.we_mounted_repo, ds,
                 check_root(self.root, ds), <<>>, <<>>, <<>>, <<>>)

\* NewFileRepo.connect(self)
connect(self, ds, netfs, n1, n2, username, password, run) ==
    IF ~exists(self.root, ds) /\ self.url_scheme # FILE
    THEN IF netfs
         THEN connect_native(self, ds, n1, n2, username, password)
         ELSE connect_fallback(self, ds, run)
    ELSE Outcome(self.root, self.we_mounted_repo, ds,
                 check_root(self.root, ds), <<>>, <<>>, <<>>, <<>>)

\* ------------------------------------------------------------ file system
\* Python s.lstrip(c)
RECURSIVE lstrip(_, _)
lstrip(s, c) ==
    IF s # <<>> /\ s[1] = c THEN lstrip(SubSeq(s, 2, Len(s)), c) ELSE s

\* posixpath.basename(p)
basename(p) == SliceFrom(p, rfind(p, "/") + 1)

\* A file system: the directories and the regular files (path -> content)
FS(ds, fl) == [dirs |-> ds, files |-> fl]

\* Every path that exists
Entries(fs) == fs.dirs \cup DOMAIN fs.files

\* The directories above p
RECURSIVE Ancestors(_)
Ancestors(p) ==
    LET head == dirname(p)
    IN  IF head = <<>> \/ head = p THEN {} ELSE {head} \cup Ancestors(head)

\* errno of a system call on a path that does not exist
Missing(p, fs) ==
    IF \E a \in Ancestors(p) : a \in DOMAIN fs.files
    THEN "ENOTDIR" ELSE "ENOENT"

IOError(errno) == <<"IOError", errno>>
OSError(errno) == <<"OSError", errno>>

\* What an operation on the file system leaves: its outcome and the files
Done(exc, val, fs) ==
    [exc |-> exc, val |-> val, dirs |-> fs.dirs, files |-> fs.files]

\* open(p).read()
read(p, fs) ==
    IF p \in DOMAIN fs.files THEN Done(<<>>, fs.files[p], fs)
    ELSE IF p \in fs.dirs THEN Done(IOError("EISDIR"), <<>>, fs)
    ELSE Done(IOError(Missing(p, fs)), <<>>, fs)

\* Faulty variant: a file that exists keeps its content
write_keeps(p, content, fs) ==
    IF p \in fs.dirs THEN Done(IOError("EISDIR"), <<>>, fs)
    ELSE IF dirname(p) \notin fs.dirs
    THEN Done(IOError(Missing(p, fs)), <<>>, fs)
    ELSE Done(<<>>, <<>>,
              FS(fs.dirs,
                 [q \in DOMAIN fs.files \cup {p} |->
                     IF q \in DOMAIN fs.files THEN fs.files[q]
                     ELSE content]))

\* open(p, 'w').write(content)
write(p, content, fs) ==
    IF p \in fs.dirs THEN Done(IOError("EISDIR"), <<>>, fs)
    ELSE IF dirname(p) \notin fs.dirs
    THEN Done(IOError(Missing(p, fs)), <<>>, fs)
    ELSE Done(<<>>, <<>>,
              FS(fs.dirs,
                 [q \in DOMAIN fs.files \cup {p} |->
                     IF q = p THEN content ELSE fs.files[q]]))

\* os.mkdir(p)
mkdir(p, fs) ==
    IF p \in Entries(fs) THEN Done(OSError("EEXIST"), <<>>, fs)
    ELSE IF dirname(p) \notin fs.dirs
    THEN Done(OSError(Missing(p, fs)), <<>>, fs)
    ELSE Done(<<>>, <<>>, FS(fs.dirs \cup {p}, fs.files))

\* os.makedirs(p, 0755): the missing directories above p first, then p
RECURSIVE makedirs(_, _)
makedirs(p, fs) ==
    LET head  == dirname(p)
        above == IF head # <<>> /\ head # p /\ ~exists(head, Entries(fs))
                 THEN makedirs(head, fs)
                 ELSE Done(<<>>, <<>>, fs)
    IN  IF above.exc # <<>> /\ above.exc # OSError("EEXIST")
        THEN above
        ELSE mkdir(p, FS(above.dirs, above.files))

\* Faulty variant: the file is reported removed and stays
remove_keeps(p, fs) ==
    IF p \in DOMAIN fs.files THEN Done(<<>>, <<>>, fs)
    ELSE IF p \in fs.dirs THEN Done(OSError("EPERM"), <<>>, fs)
    ELSE Done(OSError(Missing(p, fs)), <<>>, fs)

\* os.remove(p)
remove(p, fs) ==
    IF p \in DOMAIN fs.files
    THEN Done(<<>>, <<>>,
              FS(fs.dirs, [q \in DOMAIN fs.files \ {p} |-> fs.files[q]]))
    ELSE IF p \in fs.dirs THEN Done(OSError("EPERM"), <<>>, fs)
    ELSE Done(OSError(Missing(p, fs)), <<>>, fs)

\* shutil.copyfile(src, dst)
copyfile(src, dst, fs) ==
    IF src = dst /\ src \in Entries(fs)
    THEN Done(<<"shutil.Error">>, <<>>, fs)
    ELSE LET r == read(src, fs)
         IN  IF r.exc # <<>> THEN r ELSE write(dst, r.val, fs)

\* Faulty variant: the directories under top are not entered
walk_flat(top, fs) ==
    IF top \notin fs.dirs THEN {}
    ELSE {q \in DOMAIN fs.files : dirname(q) = top}

\* os.walk(top): the regular files found under top, at any depth; nothing
\* when top cannot be listed
RECURSIVE walk(_, _)
walk(top, fs) ==
    IF top \notin fs.dirs THEN {}
    ELSE LET names    == {basename(p) : p \in {q \in Entries(fs) :
                                                dirname(q) = top /\ q # top}}
             dirnames == {n \in names : join(top, n) \in fs.dirs}
             filenames == names \ dirnames
         IN  {join(top, n) : n \in filenames}
             \cup UNION {walk(join(top, n), fs) : n \in dirnames}

\* ------------------------------------------------------------ items
\* Faulty variant: a directory that cannot be listed raises, as os.listdir
itemlist_listdir(self, kind, fs) ==
    LET search_dir == join(self.root, kind)
    IN  IF search_dir \notin fs.dirs
        THEN Done(OSError(Missing(search_dir, fs)), {}, fs)
        ELSE Done(<<>>,
                  {lstrip(SliceFrom(abs_path, Len(search_dir)), "/") :
                      abs_path \in walk(search_dir, fs)},
                  fs)

\* NewFileRepo.itemlist(kind): the list as a set (os.walk gives no order)
itemlist(self, kind, fs) ==
    LET search_dir == join(self.root, kind)
    IN  Done(<<>>,
             {lstrip(SliceFrom(abs_path, Len(search_dir)), "/") :
                 abs_path \in walk(search_dir, fs)},
             fs)

\* NewFileRepo.get(resource_identifier)
get(self, resource_identifier, fs) ==
    read(join(self.root, resource_identifier), fs)

\* NewFileRepo.get_to_local_file(resource_identifier, local_file_path)
get_to_local_file(self, resource_identifier, local_file_path, fs) ==
    copyfile(join(self.root, resource_identifier), local_file_path, fs)

\* Faulty variant: the directories above the file are not made
put_no_makedirs(self, resource_identifier, content, fs) ==
    write(join(self.root, resource_identifier), content, fs)

\* NewFileRepo.put(resource_identifier, content)
put(self, resource_identifier, content, fs) ==
    LET repo_filepath == join(self.root, resource_identifier)
        dir_path      == dirname(repo_filepath)
        made          == IF ~exists(dir_path, Entries(fs))
                         THEN makedirs(dir_path, fs)
                         ELSE Done(<<>>, <<>>, fs)
    IN  IF made.exc # <<>> THEN made
        ELSE write(repo_filepath, content, FS(made.dirs, made.files))

\* NewFileRepo.put_from_local_file(resource_identifier, local_file_path)
put_from_local_file(self, resource_identifier, local_file_path, fs) ==
    LET repo_filepath == join(self.root, resource_identifier)
        dir_path      == dirname(repo_filepath)
        made          == IF ~exists(dir_path, Entries(fs))
                         THEN makedirs(dir_path, fs)
                         ELSE Done(<<>>, <<>>, fs)
    IN  IF made.exc # <<>> THEN made
        ELSE copyfile(local_file_path, repo_filepath,
                      FS(made.dirs, made.files))

\* Faulty variant: every file of the directory goes with the file
delete_directory(self, resource_identifier, fs) ==
    LET repo_filepath == join(self.root, resource_identifier)
        r             == remove(repo_filepath, fs)
        kept          == {q \in DOMAIN r.files :
                             dirname(q) # dirname(repo_filepath)}
    IN  IF r.exc # <<>> THEN r
        ELSE Done(<<>>, <<>>, FS(r.dirs, [q \in kept |-> r.files[q]]))

\* NewFileRepo.delete(resource_identifier)
delete(self, resource_identifier, fs) ==
    remove(join(self.root, resource_identifier), fs)

\* ------------------------------------------------------------ the host
\* The base URLs a repo is constructed with
URLs ==
    {<<"f", "i", "l", "e", ":", "/", "/", "/", "r">>,          \* file:///r
     <<"s", "m", "b", ":", "/", "/", "h", "/", "s">>,          \* smb://h/s
     <<"a", "f", "p", ":", "/", "/", "h", "/", "s">>,          \* afp://h/s
     <<"n", "f", "s", ":", "/", "/", "h", "/", "s">>,          \* nfs://h/s
     <<"f", "t", "p", ":", "/", "/", "h", "/", "s">>,          \* ftp://h/s
     <<"s", "m", "b", ":", "/", "/", "h", "/", "s", "/", "d">>, \* smb://h/s/d
     <<"n", "f", "s", ":", "s">>}                              \* nfs:s

\* Directories that always exist, and those that may
BaseDirs == {<<"/">>, VOLUMES}
OptionalDirs ==
    {<<"/", "r">>, <<"/", "s">>, <<"/", "s", "/", "d">>, VOLUMES \o <<"/", "s">>}

\* The sets of directories a host can have: a directory's parent exists
HostDirs ==
    {BaseDirs \cup ds : ds \in
        {x \in SUBSET OptionalDirs :
            \A d \in x : dirname(d) \in BaseDirs \cup x}}

\* Where NetFSMountURLSync reports the share mounted
MountPoints == {VOLUMES \o <<"/", "s">>, VOLUMES \o <<"/", "s", "-", "1">>}

\* What NetFSMountURLSync can answer: 0 and the mount points, or an error
\* code (EPERM, ENOENT, the authentication codes) and no mount point
NativeAnswers ==
    {[result |-> 0, mountpoints |-> <<mp>>] : mp \in MountPoints}
    \cup {[result |-> e, mountpoints |-> <<>>] :
            e \in {1, 2} \cup AuthenticationCodes}

\* Exit codes of the external mount command
RetCodes == {0, 1, 64}

\* What subprocess.call(cmd) can do: return the exit code, or raise OSError
\* when the command cannot be started
CommandRuns ==
    {[exc |-> <<>>, retcode |-> c] : c \in RetCodes}
    \cup {[exc |-> <<"OSError">>, retcode |-> 0]}

Usernames == {<<"u">>}
Passwords == {<<"p">>}

\* A local file outside the repo, for get_to_local_file and
\* put_from_local_file; it may exist when the repo is constructed
LocalPath == <<"/", "t">>
HostFiles == {<<>>, (LocalPath :> <<"y">>)}

\* ------------------------------------------------------------ behaviour
NoCall ==
    [op |-> "init", exc |-> <<>>, val |-> <<>>, log |-> <<>>, cmd |-> <<>>,
     results |-> <<>>, retcodes |-> <<>>, args |-> <<>>]

Self ==
    [baseurl |-> baseurl, url_scheme |-> url_scheme, root |-> root,
     we_mounted_repo |-> we_mounted_repo]

\* The state a call starts from, and how the call before it ended
Snapshot ==
    [root |-> root, we_mounted_repo |-> we_mounted_repo, dirs |-> dirs,
     files |-> files, mounts |-> mounts, op |-> last.op, exc |-> last.exc,
     args |-> last.args]

Init ==
    /\ \E url \in URLs :
         LET self == init(url)
         IN  /\ baseurl = self.baseurl
             /\ url_scheme = self.url_scheme
             /\ root = self.root
             /\ we_mounted_repo = self.we_mounted_repo
    /\ NETFSMOUNTURLSYNC_AVAILABLE \in BOOLEAN
    /\ dirs \in HostDirs
    /\ files \in HostFiles
    /\ calls = 0
    /\ mounts = 0
    /\ last = NoCall
    /\ pre = Snapshot

\* The outcomes connect() can have from the current state, over what the
\* host can answer
ConnectOutcomes ==
    {connect(Self, dirs, NETFSMOUNTURLSYNC_AVAILABLE,
             n1, n2, username, password, run) :
        n1 \in NativeAnswers, n2 \in NativeAnswers,
        username \in Usernames, password \in Passwords,
        run \in CommandRuns}

\* A call mounted the share: the last native call it made answered 0, or
\* the external command exited 0
Mounted(r) ==
    \/ (r.results # <<>> /\ r.results[Len(r.results)] = 0)
    \/ r.retcodes = <<0>>

\* repo.connect()
Connect ==
    /\ calls < MaxCalls
    /\ \E r \in ConnectOutcomes :
         /\ root' = r.root
         /\ we_mounted_repo' = r.we_mounted_repo
         /\ dirs' = r.dirs
         /\ mounts' = IF Mounted(r) THEN mounts + 1 ELSE mounts
         /\ last' = [op |-> "connect", exc |-> r.exc, val |-> <<>>,
                     log |-> r.log, cmd |-> r.cmd,
                     results |-> r.results, retcodes |-> r.retcodes,
                     args |-> <<>>]
    /\ pre' = Snapshot
    /\ calls' = calls + 1
    /\ UNCHANGED <<baseurl, url_scheme, NETFSMOUNTURLSYNC_AVAILABLE, files>>

Next == Connect

Spec == Init /\ [][Next]_vars

\* ------------------------------------------------------------ the mount
\* functions called on their own (they are module-level functions), on a
\* host where the NetFS bindings loaded
Called(op, c) ==
    /\ last' = [op |-> op, exc |-> c.exc, val |-> c.val, log |-> c.log,
                cmd |-> <<>>, results |-> c.results, retcodes |-> <<>>,
                args |-> <<baseurl>>]
    /\ dirs' = IF c.exc = <<>> THEN dirs \cup {c.val} ELSE dirs
    /\ pre' = Snapshot
    /\ calls' = calls + 1
    /\ UNCHANGED <<baseurl, url_scheme, root, we_mounted_repo,
                   NETFSMOUNTURLSYNC_AVAILABLE, files, mounts>>

\* A call of one native mount: its outcome, the event and the native result
Single(out, event, result) ==
    [exc |-> out.exc, val |-> out.val, log |-> <<event>>,
     results |-> <<result>>]

\* mount_share(self.baseurl)
MountShare ==
    /\ calls < MaxMountCalls
    /\ NETFSMOUNTURLSYNC_AVAILABLE
    /\ \E c \in {Single(mount_share(baseurl, n.result, n.mountpoints),
                        "NetFSMountURLSync", n.result) :
                    n \in NativeAnswers} :
         Called("mount_share", c)

\* mount_share_with_credentials(self.baseurl, username, password)
MountShareWithCredentials ==
    /\ calls < MaxMountCalls
    /\ NETFSMOUNTURLSYNC_AVAILABLE
    /\ \E c \in {Single(mount_share_with_credentials(
                            baseurl, username, password,
                            n.result, n.mountpoints),
                        "NetFSMountURLSync+credentials", n.result) :
                    n \in NativeAnswers,
                    username \in Usernames, password \in Passwords} :
         Called("mount_share_with_credentials", c)

\* mount_share_url(self.baseurl)
MountShareUrl ==
    /\ calls < MaxMountCalls
    /\ NETFSMOUNTURLSYNC_AVAILABLE
    /\ \E c \in {mount_share_url(baseurl, n1, n2, username, password) :
                    n1 \in NativeAnswers, n2 \in NativeAnswers,
                    username \in Usernames, password \in Passwords} :
         Called("mount_share_url", c)

NextMount == MountShare \/ MountShareWithCredentials \/ MountShareUrl

SpecMount == Init /\ [][NextMount]_vars

\* ------------------------------------------------------------ the items
\* Item operations on a local repo (file:///r), whose root may be missing
Identifiers ==
    {<<"m", "/", "a">>, <<"m", "/", "d">>, <<"m", "/", "d", "/", "a">>,
     <<"m", "/", "d", "/", "a", "/", "b">>}
Kinds    == {<<"m">>, <<"m", "/", "d">>}
Contents == {<<>>, <<"x">>}

InitItems ==
    /\ Init
    /\ url_scheme = FILE
    /\ ~NETFSMOUNTURLSYNC_AVAILABLE
    /\ dirs \subseteq BaseDirs \cup {root}

\* An item operation was called with args and ended as r
Item(op, args, r) ==
    /\ calls < MaxItemCalls
    /\ last' = [op |-> op, exc |-> r.exc, val |-> r.val, log |-> <<>>,
                cmd |-> <<>>, results |-> <<>>, retcodes |-> <<>>,
                args |-> args]
    /\ dirs' = r.dirs
    /\ files' = r.files
    /\ pre' = Snapshot
    /\ calls' = calls + 1
    /\ UNCHANGED <<baseurl, url_scheme, root, we_mounted_repo,
                   NETFSMOUNTURLSYNC_AVAILABLE, mounts>>

ItemList ==
    \E kind \in Kinds :
        Item("itemlist", <<kind>>, itemlist(Self, kind, FS(dirs, files)))

Get ==
    \E id \in Identifiers :
        Item("get", <<id>>, get(Self, id, FS(dirs, files)))

GetToLocalFile ==
    \E id \in Identifiers :
        Item("get_to_local_file", <<id, LocalPath>>,
             get_to_local_file(Self, id, LocalPath, FS(dirs, files)))

Put ==
    \E id \in Identifiers, content \in Contents :
        Item("put", <<id, content>>,
             put(Self, id, content, FS(dirs, files)))

PutFromLocalFile ==
    \E id \in Identifiers :
        Item("put_from_local_file", <<id, LocalPath>>,
             put_from_local_file(Self, id, LocalPath, FS(dirs, files)))

Delete ==
    \E id \in Identifiers :
        Item("delete", <<id>>, delete(Self, id, FS(dirs, files)))

NextItems ==
    ItemList \/ Get \/ GetToLocalFile \/ Put \/ PutFromLocalFile \/ Delete

SpecItems == InitItems /\ [][NextItems]_vars

\* ------------------------------------------------------------ claims
Has(log, e) == \E i \in 1..Len(log) : log[i] = e

IsConnect == last.op = "connect"

\* The last call was a connect() that found a non-file repo's root missing
MountAttempted ==
    IsConnect /\ ~exists(pre.root, pre.dirs) /\ url_scheme # FILE
OnNative   == MountAttempted /\ NETFSMOUNTURLSYNC_AVAILABLE
OnFallback == MountAttempted /\ ~NETFSMOUNTURLSYNC_AVAILABLE

\* The fallback path created the mount directory (os.mkdir succeeded)
DirectoryMade == OnFallback /\ exists(dirname(pre.root), pre.dirs)

\* The external mount command ran and exited non-zero
CommandFailed ==
    OnFallback /\ last.retcodes # <<>> /\ last.retcodes[1] # 0

C2_OwnedOnlyAfterMount ==
    /\ we_mounted_repo => mounts > 0
    /\ url_scheme = FILE => ~we_mounted_repo
    /\ (IsConnect /\ exists(pre.root, pre.dirs))
          => (we_mounted_repo = pre.we_mounted_repo /\ mounts = pre.mounts)
    /\ (IsConnect /\ calls = 1 /\ exists(pre.root, pre.dirs))
          => ~we_mounted_repo

C2_Witness ==
    /\ IsConnect
    /\ Mounted(last)
    /\ we_mounted_repo
    /\ mounts = 1

\* C3: connect() on a non-file repo whose root is missing attempts a mount;
\* when the native mount answers an authentication code, the username and
\* password prompts and a mount with credentials follow before connect()
\* ends; the prompt happens only after such an answer.
C3_AuthNeededPrompts ==
    /\ OnNative => (last.log # <<>> /\ last.log[1] = "NetFSMountURLSync")
    /\ (OnNative /\ last.results[1] \in AuthenticationCodes)
          => last.log = <<"NetFSMountURLSync", "raw_input",
                          "getpass.getpass", "NetFSMountURLSync+credentials">>
    /\ (IsConnect /\ Has(last.log, "raw_input"))
          => last.results[1] \in AuthenticationCodes

\* C4: connect() on a file-scheme repo whose root exists attempts no mount
\* (no native call, no external command, no directory created) and returns.
C4_FileRootNeverMounts ==
    (IsConnect /\ url_scheme = FILE /\ exists(pre.root, pre.dirs))
        => /\ last.log = <<>>
           /\ last.cmd = <<>>
           /\ dirs = pre.dirs
           /\ mounts = pre.mounts
           /\ last.exc = <<>>

C4_Witness ==
    /\ IsConnect
    /\ url_scheme = FILE
    /\ exists(pre.root, pre.dirs)
    /\ last.exc = <<>>
    /\ root = <<"/", "r">>

\* C5: connect() is a no-op when root exists; over a sequence of connect()
\* calls at most one mount succeeds, and after a connect() that returned,
\* root and we_mounted_repo no longer change.
C5_ConnectIdempotent ==
    /\ (IsConnect /\ exists(pre.root, pre.dirs))
          => /\ last.log = <<>>
             /\ root = pre.root
             /\ we_mounted_repo = pre.we_mounted_repo
             /\ dirs = pre.dirs
    /\ mounts <= 1
    /\ (IsConnect /\ pre.op = "connect" /\ pre.exc = <<>>)
          => /\ root = pre.root
             /\ we_mounted_repo = pre.we_mounted_repo
             /\ mounts = pre.mounts
             /\ last.exc = <<>>

C5_Witness ==
    /\ IsConnect
    /\ pre.op = "connect"
    /\ pre.exc = <<>>
    /\ calls >= 2
    /\ we_mounted_repo
    /\ mounts = 1

\* The URL without its scheme and the "//" after it: host/path
BareHostPath(url) == urlparse(url).netloc \o urlparse(url).path

\* C6 as claimed: smb: and nfs: URLs reach their tool as the bare host/path
\* (smb://host/share gives host/share), afp: URLs as the full URL.
C6_BareHostPath ==
    (IsConnect /\ Has(last.log, "subprocess.call"))
        => /\ url_scheme = <<"s", "m", "b">>
                => last.cmd = <<"/sbin/mount_smbfs", BareHostPath(baseurl), pre.root>>
           /\ url_scheme = <<"n", "f", "s">>
                => last.cmd = <<"/sbin/mount_nfs", BareHostPath(baseurl), pre.root>>
           /\ url_scheme = <<"a", "f", "p">>
                => last.cmd = <<"/sbin/mount_afp", "-i", baseurl, pre.root>>

\* C6 as amended: a URL that starts with smb: reaches the SMB tool without
\* those four characters (smb://host/share gives //host/share), a URL that
\* starts with nfs:// reaches the NFS tool without those six characters
\* (host/share), and a URL that starts with afp: reaches the AFP tool whole,
\* after -i; the last argument is root. No other URL runs a command.
C6_PrefixStripped ==
    /\ (IsConnect /\ Has(last.log, "subprocess.call"))
          => \/ /\ startswith(baseurl, SMB_)
                /\ last.cmd = <<"/sbin/mount_smbfs", SliceFrom(baseurl, 4), pre.root>>
                /\ last.cmd[2] = <<"/", "/">> \o BareHostPath(baseurl)
             \/ /\ startswith(baseurl, NFS_)
                /\ last.cmd = <<"/sbin/mount_nfs", SliceFrom(baseurl, 6), pre.root>>
                /\ last.cmd[2] = BareHostPath(baseurl)
             \/ /\ startswith(baseurl, AFP_)
                /\ last.cmd = <<"/sbin/mount_afp", "-i", baseurl, pre.root>>
    /\ (DirectoryMade
           /\ (startswith(baseurl, SMB_) \/ startswith(baseurl, NFS_)
                  \/ startswith(baseurl, AFP_)))
          => Has(last.log, "subprocess.call")

C6_Witness ==
    /\ IsConnect
    /\ baseurl = <<"s", "m", "b", ":", "/", "/", "h", "/", "s">>
    /\ last.cmd = <<"/sbin/mount_smbfs", <<"/", "/", "h", "/", "s">>, <<"/", "s">>>>

\* C7: on the fallback path, connect() for a URL whose scheme is none of
\* afp, smb, nfs fails with ShareMountException; it does not return.
C7_UnsupportedFails ==
    (DirectoryMade
        /\ url_scheme \notin {<<"a", "f", "p">>, <<"s", "m", "b">>, <<"n", "f", "s">>})
        => last.exc = ShareMountException

\* C8: on the fallback path, when the external command exits non-zero the
\* directory this call created is removed again, we_mounted_repo stays
\* false and connect() raises; when it exits 0, we_mounted_repo is true.
C8_FallbackExitCode ==
    /\ CommandFailed
          => /\ Has(last.log, "os.rmdir")
             /\ ~exists(pre.root, dirs)
             /\ dirs = pre.dirs
             /\ ~we_mounted_repo
             /\ last.exc # <<>>
    /\ (OnFallback /\ last.retcodes = <<0>>)
          => (we_mounted_repo /\ exists(root, dirs))

C8_Witness ==
    /\ CommandFailed
    /\ last.retcodes = <<64>>
    /\ last.log = <<"os.mkdir", "subprocess.call", "os.rmdir">>
    /\ dirs = pre.dirs
    /\ ~we_mounted_repo

\* C9: mount_share_with_credentials raises ShareMountException for every
\* non-zero native result, the authentication codes included, and never
\* ShareAuthenticationNeededException; one mount_share_url call prompts at
\* most once and makes at most two native calls.
C9_CredentialsNeverAuthNeeded ==
    /\ (last.op = "mount_share_with_credentials" /\ last.results[1] # 0)
          => last.exc = ShareMountException
    /\ (last.op = "mount_share_with_credentials" /\ last.results[1] = 0)
          => (last.exc = <<>> /\ last.val \in MountPoints)
    /\ last.op \in {"mount_share_url", "mount_share_with_credentials"}
          => /\ last.exc # ShareAuthenticationNeededException
             /\ Count(last.log, "raw_input") <= 1
             /\ Len(last.results) <= 2

C9_Witness ==
    /\ last.op = "mount_share_with_credentials"
    /\ last.results = <<kNetAuthErrorInternal>>
    /\ last.exc = ShareMountException

\* C10: mount_share classifies every native result: 0 returns the first
\* reported mount point, an authentication code raises
\* ShareAuthenticationNeededException, any other result raises
\* ShareMountException.
C10_MountClassifies ==
    last.op = "mount_share"
        => /\ last.results[1] = 0
                => (last.exc = <<>> /\ last.val \in MountPoints)
           /\ last.results[1] \in AuthenticationCodes
                => last.exc = ShareAuthenticationNeededException
           /\ (last.results[1] # 0 /\ last.results[1] \notin AuthenticationCodes)
                => last.exc = ShareMountException

\* C11: at construction, root is the URL's path component for the file
\* scheme; for any other scheme it is /Volumes followed by the path
\* component, so it lies under /Volumes also when the path begins with "/".
C11_RootUnderVolumes ==
    calls = 0
        => LET path == urlparse(baseurl).path
           IN  /\ url_scheme = FILE => root = path
               /\ url_scheme # FILE
                    => /\ root = IF startswith(path, <<"/">>)
                                 THEN VOLUMES \o path
                                 ELSE VOLUMES \o <<"/">> \o path
                       /\ startswith(root, VOLUMES \o <<"/">>)

\* C17: a mount that fails during connect() is without effect on the
\* instance: root keeps the value it had before the call and we_mounted_repo
\* stays false; root is reassigned only when a native mount reports success.
C17_FailedMountKeepsInstance ==
    /\ (MountAttempted /\ ~Mounted(last))
          => /\ root = pre.root
             /\ we_mounted_repo = pre.we_mounted_repo
             /\ ~we_mounted_repo
    /\ (IsConnect /\ root # pre.root)
          => /\ OnNative
             /\ last.results # <<>>
             /\ last.results[Len(last.results)] = 0
             /\ root \in MountPoints

C17_Witness ==
    /\ OnNative
    /\ last.results = <<1>>
    /\ last.exc # <<>>
    /\ root = pre.root
    /\ ~we_mounted_repo

\* C18: a connect() on a non-file repo that ends without a successful mount
\* leaves the directories as it found them (nothing it created stays at
\* root), and a connect() that follows a failed one, with still no mount
\* made, fails too.
C18_FailedConnectLeavesNoDirectory ==
    /\ (MountAttempted /\ ~Mounted(last))
          => (dirs = pre.dirs /\ ~exists(pre.root, dirs))
    /\ (IsConnect /\ url_scheme # FILE /\ mounts = 0
           /\ pre.op = "connect" /\ pre.exc # <<>>)
          => last.exc # <<>>

\* ------------------------------------------------------------ item claims
Before == FS(pre.dirs, pre.files)
Now    == FS(dirs, files)

IsItem(op)   == last.op = op
Returned     == last.exc = <<>>
ItemPath     == join(root, last.args[1])
SameItem     == pre.args # <<>> /\ last.args # <<>> /\ pre.args[1] = last.args[1]

\* C12: a put(id, content) that returns is followed by a get(id) that
\* returns exactly content, also when id already held other content
C12_PutThenGet ==
    /\ (IsItem("put") /\ Returned)
          => LET r == get(Self, last.args[1], Now)
             IN  r.exc = <<>> /\ r.val = last.args[2]
    /\ (IsItem("get") /\ pre.op = "put" /\ pre.exc = <<>> /\ SameItem)
          => (Returned /\ last.val = pre.args[2])

C12_Witness ==
    /\ IsItem("put") /\ Returned
    /\ pre.op = "put" /\ pre.exc = <<>> /\ SameItem
    /\ pre.files[ItemPath] = pre.args[2]
    /\ pre.args[2] # last.args[2]
    /\ files[ItemPath] = last.args[2]

\* C13: after put(id, content) and delete(id), get(id) fails because the
\* file is not found; delete(id) of an identifier that does not exist
\* fails and removes nothing
C13_DeleteThenGet ==
    /\ (IsItem("delete") /\ Returned)
          => get(Self, last.args[1], Now).exc = IOError("ENOENT")
    /\ (IsItem("get") /\ pre.op = "delete" /\ pre.exc = <<>> /\ SameItem)
          => last.exc = IOError("ENOENT")
    /\ (IsItem("delete") /\ ~exists(ItemPath, Entries(Before)))
          => /\ last.exc \in {OSError("ENOENT"), OSError("ENOTDIR")}
             /\ Now = Before

C13_Witness ==
    /\ IsItem("delete") /\ Returned
    /\ pre.op = "put" /\ pre.exc = <<>> /\ SameItem
    /\ ItemPath \in DOMAIN pre.files
    /\ ItemPath \notin DOMAIN files

\* C14: itemlist(kind) of a kind whose directory does not exist under root
\* returns the empty list and does not raise
C14_MissingKindEmpty ==
    (IsItem("itemlist") /\ ~exists(ItemPath, Entries(Before)))
        => (Returned /\ last.val = {})

C14_Witness ==
    /\ IsItem("itemlist") /\ Returned /\ last.val = {}
    /\ ~exists(ItemPath, Entries(Before))
    /\ \E p \in DOMAIN files : root \in Ancestors(p)

\* C15: itemlist(kind) of a kind directory that exists returns exactly the
\* paths, relative to root/kind, of the regular files under root/kind at
\* any depth: none missing, none extra, no directory, and none begins
\* with a separator
C15_ListsExactlyFiles ==
    (IsItem("itemlist") /\ ItemPath \in pre.dirs)
        => LET under == {p \in DOMAIN pre.files : ItemPath \in Ancestors(p)}
           IN  /\ Returned
               /\ last.val = {SliceFrom(p, Len(ItemPath) + 1) : p \in under}
               /\ \A rel \in last.val :
                    /\ rel # <<>>
                    /\ rel[1] # "/"
                    /\ join(ItemPath, rel) \in DOMAIN pre.files
                    /\ join(ItemPath, rel) \notin pre.dirs

C15_Witness ==
    /\ IsItem("itemlist") /\ ItemPath \in pre.dirs
    /\ last.args[1] = <<"m">>
    /\ last.val = {<<"a">>, <<"d", "/", "a">>}
    /\ join(ItemPath, <<"d">>) \in dirs

\* Nothing stands in the way of a file at p: p is not a directory and no
\* path above p is a regular file
Free(p, fs) == p \notin fs.dirs /\ Ancestors(p) \cap DOMAIN fs.files = {}

\* The item is listed, relative to its directory, under every kind above it
Listed(resource_identifier, fs) ==
    \A kind \in Kinds :
        startswith(resource_identifier, kind \o <<"/">>)
            => SliceFrom(resource_identifier, Len(kind) + 1)
                   \in itemlist(Self, kind, fs).val

\* C16 as stated: every put(id, content) creates the missing directories
\* above root/id and returns, and itemlist on the kind of id then holds the
\* item relative to the kind directory; put_from_local_file creates the
\* directories the same way
C16_PutAlwaysSucceeds ==
    /\ IsItem("put")
          => /\ Returned
             /\ Ancestors(ItemPath) \subseteq dirs
             /\ Listed(last.args[1], Now)
    /\ IsItem("put_from_local_file")
          => Ancestors(ItemPath) \subseteq dirs

\* C16: when root/id is not a directory and no path above it is a regular
\* file, put(id, content) creates the missing directories above root/id
\* and returns, and itemlist on the kind of id then holds the item relative
\* to the kind directory; put_from_local_file creates the same directories,
\* and returns with the item listed when the local file can be read
C16_PutCreatesParents ==
    /\ (IsItem("put") /\ Free(ItemPath, Before))
          => /\ Returned
             /\ Ancestors(ItemPath) \subseteq dirs
             /\ pre.dirs \subseteq dirs
             /\ Listed(last.args[1], Now)
    /\ (IsItem("put_from_local_file") /\ Free(ItemPath, Before))
          => /\ Ancestors(ItemPath) \subseteq dirs
             /\ last.args[2] \in DOMAIN pre.files
                   => (Returned /\ Listed(last.args[1], Now))
    /\ (IsItem("itemlist") /\ pre.op = "put" /\ pre.exc = <<>>
           /\ startswith(pre.args[1], last.args[1] \o <<"/">>))
          => SliceFrom(pre.args[1], Len(last.args[1]) + 1) \in last.val

C16_Witness ==
    /\ IsItem("put") /\ Returned
    /\ last.args[1] = <<"m", "/", "d", "/", "a">>
    /\ pre.dirs = BaseDirs
    /\ {root, join(root, <<"m">>), join(root, <<"m", "/", "d">>)}
           \subseteq dirs
    /\ <<"d", "/", "a">> \in itemlist(Self, <<"m">>, Now).val

\* What get(id) gave before the last call and gives after it
GetBefore(resource_identifier) == get(Self, resource_identifier, Before)
GetNow(resource_identifier)    == get(Self, resource_identifier, Now)

Changing == {"put", "put_from_local_file", "delete"}
ItemOps  == Changing \cup {"get", "get_to_local_file", "itemlist"}

\* One path is above the other
Nested(p, q) == p \in Ancestors(q) \/ q \in Ancestors(p)

\* C19 as stated: put(id, ...) and delete(id) leave get(j) of every other
\* identifier j with the same content or the same failure; a delete that
\* fails for a missing id changes no file; no item operation changes root
\* or we_mounted_repo
C19_OthersUntouched ==
    /\ last.op \in Changing
          => \A j \in Identifiers \ {last.args[1]} :
                /\ GetNow(j).exc = GetBefore(j).exc
                /\ GetNow(j).val = GetBefore(j).val
    /\ (IsItem("delete") /\ ~exists(ItemPath, Entries(Before)))
          => (~Returned /\ Now = Before)
    /\ last.op \in ItemOps
          => (root = pre.root /\ we_mounted_repo = pre.we_mounted_repo)

\* C19: put(id, ...) and delete(id) leave get(j) of every other identifier
\* j with the same content, or failing as it failed before; the failure is
\* the same one unless root/j is above or below root/id, where a directory
\* made by put or a file made or removed at id changes why root/j cannot be
\* read; a delete that fails for a missing id changes no file; no item
\* operation changes root or we_mounted_repo
C19_OtherContentsKept ==
    /\ last.op \in Changing
          => \A j \in Identifiers \ {last.args[1]} :
                /\ GetNow(j).val = GetBefore(j).val
                /\ (GetNow(j).exc = <<>>) <=> (GetBefore(j).exc = <<>>)
                /\ GetNow(j).exc # GetBefore(j).exc
                       => Nested(join(root, j), ItemPath)
    /\ (IsItem("delete") /\ ~exists(ItemPath, Entries(Before)))
          => (~Returned /\ Now = Before)
    /\ last.op \in ItemOps
          => (root = pre.root /\ we_mounted_repo = pre.we_mounted_repo)

C19_Witness ==
    /\ IsItem("put") /\ Returned
    /\ last.args[1] = <<"m", "/", "d", "/", "a">>
    /\ GetBefore(<<"m", "/", "a">>).exc = <<>>
    /\ GetNow(<<"m", "/", "a">>).val = <<"x">>
    /\ GetBefore(<<"m", "/", "d">>).exc = IOError("ENOENT")
    /\ GetNow(<<"m", "/", "d">>).exc = IOError("EISDIR")

====
